---- MODULE Spec2Model ----
(***************************************************************************)
(* hex-sim: three account-pooling strategies (PoolPerShop, SinglePool,     *)
(* SinglePoolWithSingleAccount) fed the same transaction stream, and the   *)
(* year/day/hour loop of main that drives them.                            *)
(*                                                                         *)
(* Money is f64 in the source.  The model keeps the rounding of f64        *)
(* arithmetic at a reduced width: a value is a natural number with at      *)
(* most MantissaBits significant bits, and every + and - rounds to the     *)
(* nearest such value, ties to the even mantissa (IEEE 754 round to        *)
(* nearest even, 53 bits in f64).                                          *)
(***************************************************************************)
EXTENDS Integers, Sequences, FiniteSets, TLC

\* ---------------------------------------------------------------- bounds
MantissaBits == 2
MaxBatch == 2
MaxTransactionsPerPeriod == 2
simulated_shops_number == 2
MaxPeriod == 7
MaxYears == 2
RngPeriod == 2
MaxSales == 2
MaxSaleMultiplier == 2

\* ------------------------------------------------------ program constants
HOURS_IN_DAY == 24
DAYS_IN_YEAR == 365

Shops == 0 .. (simulated_shops_number - 1)

\* ------------------------------------------------------------ f64 values
RECURSIVE Pow2(_)
Pow2(n) == IF n = 0 THEN 1 ELSE 2 * Pow2(n - 1)

\* the spacing of representable values around n
RECURSIVE Ulp(_, _)
Ulp(n, q) == IF n < Pow2(MantissaBits) * q THEN q ELSE Ulp(n, 2 * q)

\* round to nearest representable value, ties to even
Round(n) ==
    LET q == Ulp(n, 1)
        m == n \div q
        r == n % q
    IN  IF 2 * r < q THEN m * q
        ELSE IF 2 * r > q THEN (m + 1) * q
        ELSE IF m % 2 = 0 THEN m * q ELSE (m + 1) * q

F64Add(a, b) == Round(a + b)
F64Sub(a, b) == Round(a - b)
\* the amounts of the transactions: the unit, and the smallest value the unit
\* is lost against when it is added to it
Amounts == {1, Pow2(MantissaBits)}

F64Min(a, b) == IF a < b THEN a ELSE b

\* ---------------------------------------------------------- sequences
RECURSIVE SumSeq(_)
SumSeq(s) == IF s = <<>> THEN 0 ELSE Head(s) + SumSeq(Tail(s))

RECURSIVE SumFun(_, _)
SumFun(f, D) ==
    IF D = {} THEN 0
    ELSE LET x == CHOOSE y \in D : TRUE IN f[x] + SumFun(f, D \ {x})

\* the sequence without its i-th element
Without(s, i) == [j \in 1 .. (Len(s) - 1) |-> IF j < i THEN s[j] ELSE s[j + 1]]

\* all enumeration orders of the elements of a sequence
RECURSIVE Orderings(_)
Orderings(s) ==
    IF s = <<>> THEN {<<>>}
    ELSE UNION {{<<s[i]>> \o rest : rest \in Orderings(Without(s, i))} : i \in DOMAIN s}

\* a Vec laid out as a binary min-heap: no element is below its parent
IsHeapOrder(a) == \A i \in 2 .. Len(a) : a[i \div 2] <= a[i]

RECURSIVE SetToSeq(_)
SetToSeq(S) ==
    IF S = {} THEN <<>>
    ELSE LET x == CHOOSE y \in S : \A z \in S : y <= z
         IN  <<x>> \o SetToSeq(S \ {x})

\* ------------------------------------------------------------ data.rs
Transaction == [amount : Amounts, shop_id : Shops]

RECURSIVE SeqsUpTo(_, _)
SeqsUpTo(S, n) ==
    IF n = 0 THEN {<<>>}
    ELSE LET shorter == SeqsUpTo(S, n - 1)
         IN  shorter \cup {Append(s, x) : s \in {t \in shorter : Len(t) = n - 1}, x \in S}

Batches == SeqsUpTo(Transaction, MaxBatch)

\* HashMap::entry(k).or_default(): the value under k, 0.0 when absent
OrDefault(map, k) == IF k \in DOMAIN map THEN map[k] ELSE 0

Put(map, k, v) == [x \in DOMAIN map \cup {k} |-> IF x = k THEN v ELSE map[x]]

EmptyMap == [x \in {} |-> 0]

\* ------------------------------------------------------- PoolPerShop
\* grouping that keeps a transaction's place in the batch as its place in the
\* shop's list, the places of the other shops' transactions filled with 0.0
RECURSIVE GroupByShop_batch_position(_, _)
GroupByShop_batch_position(txs_per_shop, transactions) ==
    IF transactions = <<>> THEN txs_per_shop
    ELSE LET t == Head(transactions)
             txs == IF t.shop_id \in DOMAIN txs_per_shop
                    THEN txs_per_shop[t.shop_id] ELSE <<>>
             seen == IF DOMAIN txs_per_shop = {} THEN 0
                     ELSE CHOOSE n \in {Len(txs_per_shop[k]) : k \in DOMAIN txs_per_shop} :
                              \A k \in DOMAIN txs_per_shop : Len(txs_per_shop[k]) <= n
             padded == [i \in 1 .. seen |-> IF i <= Len(txs) THEN txs[i] ELSE 0]
         IN  GroupByShop_batch_position(
                 Put(txs_per_shop, t.shop_id, Append(padded, t.amount)),
                 Tail(transactions))

RECURSIVE GroupByShop(_, _)
GroupByShop(txs_per_shop, transactions) ==
    IF transactions = <<>> THEN txs_per_shop
    ELSE LET t == Head(transactions)
             txs == IF t.shop_id \in DOMAIN txs_per_shop
                    THEN txs_per_shop[t.shop_id] ELSE <<>>
         IN  GroupByShop(Put(txs_per_shop, t.shop_id, Append(txs, t.amount)),
                         Tail(transactions))

\* Vec::resize(n, 0.0) without the length test: a longer pool is cut
Resize_always(pool, n) == [i \in 1 .. n |-> IF i <= Len(pool) THEN pool[i] ELSE 0]

\* Vec::resize(n, 0.0) when the pool is shorter than n
Resize(pool, n) ==
    IF Len(pool) < n THEN [i \in 1 .. n |-> IF i <= Len(pool) THEN pool[i] ELSE 0]
    ELSE pool

\* pool.iter_mut().zip(txs): the i-th amount goes to the i-th account
ZipAdd(pool, txs) ==
    [i \in DOMAIN pool |-> IF i <= Len(txs) THEN F64Add(pool[i], txs[i]) ELSE pool[i]]

PoolPerShop_process_transactions(pools, transactions) ==
    LET txs_per_shop == GroupByShop(EmptyMap, transactions)
    IN  [s \in DOMAIN pools \cup DOMAIN txs_per_shop |->
            IF s \in DOMAIN txs_per_shop
            THEN LET pool == IF s \in DOMAIN pools THEN pools[s] ELSE <<>>
                 IN  ZipAdd(Resize(pool, Len(txs_per_shop[s])), txs_per_shop[s])
            ELSE pools[s]]

PoolPerShop_total_accounts(pools) ==
    SumFun([s \in DOMAIN pools |-> Len(pools[s])], DOMAIN pools)

PoolPerShop_fill(pools) ==
    [s \in DOMAIN pools |-> [i \in DOMAIN pools[s] |-> 0]]

\* the withdrawal with every shop's accounts dropped instead of zeroed
PoolPerShop_withdraw_all_clear(pools) ==
    [pools |-> [s \in DOMAIN pools |-> <<>>],
     ret   |-> PoolPerShop_total_accounts(pools)]

PoolPerShop_withdraw_all(pools) ==
    [pools |-> PoolPerShop_fill(pools),
     ret   |-> PoolPerShop_total_accounts(PoolPerShop_fill(pools))]

\* --------------------------------------------------------- SinglePool
\* The BinaryHeap<Reverse<F64AsKey>> is kept as the ascending sequence of
\* its balances: pop() takes the head, push keeps the order.
RECURSIVE HeapPush(_, _)
HeapPush(pool, x) ==
    IF pool = <<>> THEN <<x>>
    ELSE IF x <= Head(pool) THEN <<x>> \o pool
    ELSE <<Head(pool)>> \o HeapPush(Tail(pool), x)

RECURSIVE HeapExtend(_, _)
HeapExtend(pool, xs) ==
    IF xs = <<>> THEN pool ELSE HeapExtend(HeapPush(pool, Head(xs)), Tail(xs))

\* the loop with every updated account pushed back at once
RECURSIVE SinglePool_process_loop_push_back(_, _, _, _)
SinglePool_process_loop_push_back(pool, shop_balances, updated_accounts, transactions) ==
    IF transactions = <<>>
    THEN [pool |-> pool, shop_balances |-> shop_balances]
    ELSE LET t == Head(transactions)
             balance == F64Add(OrDefault(shop_balances, t.shop_id), t.amount)
             account == IF pool = <<>> THEN 0 ELSE Head(pool)
             rest == IF pool = <<>> THEN <<>> ELSE Tail(pool)
         IN  SinglePool_process_loop_push_back(HeapPush(rest, F64Add(t.amount, account)),
                                               Put(shop_balances, t.shop_id, balance),
                                               updated_accounts,
                                               Tail(transactions))

\* for each transaction: shop_balances += amount, pop (or default), set the
\* updated account aside; after the loop the accounts set aside are pushed
RECURSIVE SinglePool_process_loop(_, _, _, _)
SinglePool_process_loop(pool, shop_balances, updated_accounts, transactions) ==
    IF transactions = <<>>
    THEN [pool |-> HeapExtend(pool, updated_accounts), shop_balances |-> shop_balances]
    ELSE LET t == Head(transactions)
             balance == F64Add(OrDefault(shop_balances, t.shop_id), t.amount)
             account == IF pool = <<>> THEN 0 ELSE Head(pool)
             rest == IF pool = <<>> THEN <<>> ELSE Tail(pool)
         IN  SinglePool_process_loop(rest,
                                     Put(shop_balances, t.shop_id, balance),
                                     Append(updated_accounts, F64Add(t.amount, account)),
                                     Tail(transactions))

\* the transactions of the batch handled one after another, each as a batch
\* of its own
RECURSIVE SinglePool_process_transactions_one_by_one(_, _)
SinglePool_process_transactions_one_by_one(self, transactions) ==
    IF transactions = <<>> THEN self
    ELSE SinglePool_process_transactions_one_by_one(
             SinglePool_process_loop(self.pool, self.shop_balances, <<>>,
                                     <<Head(transactions)>>),
             Tail(transactions))

SinglePool_process_transactions(self, transactions) ==
    SinglePool_process_loop(self.pool, self.shop_balances, <<>>, transactions)

SinglePool_total_accounts(self) == Len(self.pool)

\* a reset to Self::default(): the accounts are dropped
SinglePool_reset_default(self) == [pool |-> <<>>, shop_balances |-> EmptyMap]

SinglePool_reset(self) ==
    [pool |-> [i \in DOMAIN self.pool |-> 0], shop_balances |-> EmptyMap]

SinglePool_new == [pool |-> <<>>, shop_balances |-> EmptyMap]

\* The frame of SinglePool::withdraw_all on entry: accounts is the heap in
\* the order BinaryHeap::iter visits it, order the order in which the
\* HashMap iterator visits the shops.
WithdrawEnter(accounts, order, shop_balances) ==
    [pc |-> "loop", accounts |-> accounts, order |-> order,
     balances |-> shop_balances, shop |-> 1, current |-> 0,
     total_transactions |-> 0, broke |-> FALSE]

Idle ==
    [pc |-> "idle", accounts |-> <<>>, order |-> <<>>, balances |-> EmptyMap,
     shop |-> 1, current |-> 0, total_transactions |-> 0, broke |-> FALSE]

\* the step with a count per settled shop instead of one per transfer
SinglePool_withdraw_step_per_shop(f) ==
    IF f.shop > Len(f.order) THEN [f EXCEPT !.pc = "reset"]
    ELSE LET s == f.order[f.shop]
             balance == f.balances[s]
         IN  IF ~(balance > 0) THEN [f EXCEPT !.shop = @ + 1]
             ELSE IF f.current >= Len(f.accounts) THEN [f EXCEPT !.pc = "panic"]
             ELSE IF f.accounts[f.current + 1] = 0
                  THEN IF f.current + 1 = Len(f.accounts)
                       THEN [f EXCEPT !.current = @ + 1, !.pc = "reset", !.broke = TRUE]
                       ELSE [f EXCEPT !.current = @ + 1]
             ELSE LET amount == F64Min(balance, f.accounts[f.current + 1])
                  IN  [f EXCEPT !.accounts[f.current + 1] = F64Sub(@, amount),
                                !.balances[s] = F64Sub(@, amount),
                                !.total_transactions =
                                    IF amount = balance THEN @ + 1 ELSE @]

\* the step without `if current == accounts.len() { break 'outer }`
SinglePool_withdraw_step_no_break(f) ==
    IF f.shop > Len(f.order) THEN [f EXCEPT !.pc = "reset"]
    ELSE LET s == f.order[f.shop]
             balance == f.balances[s]
         IN  IF ~(balance > 0) THEN [f EXCEPT !.shop = @ + 1]
             ELSE IF f.current >= Len(f.accounts) THEN [f EXCEPT !.pc = "panic"]
             ELSE IF f.accounts[f.current + 1] = 0
                  THEN [f EXCEPT !.current = @ + 1]
             ELSE LET amount == F64Min(balance, f.accounts[f.current + 1])
                  IN  [f EXCEPT !.accounts[f.current + 1] = F64Sub(@, amount),
                                !.balances[s] = F64Sub(@, amount),
                                !.total_transactions = @ + 1]

\* One step of the loops of withdraw_all, from the head of
\* `while *balance > 0.0`.
SinglePool_withdraw_step(f) ==
    IF f.shop > Len(f.order) THEN [f EXCEPT !.pc = "reset"]
    ELSE LET s == f.order[f.shop]
             balance == f.balances[s]
         IN  IF ~(balance > 0) THEN [f EXCEPT !.shop = @ + 1]
             ELSE IF f.current >= Len(f.accounts) THEN [f EXCEPT !.pc = "panic"]
             ELSE IF f.accounts[f.current + 1] = 0
                  THEN IF f.current + 1 = Len(f.accounts)
                       THEN [f EXCEPT !.current = @ + 1, !.pc = "reset", !.broke = TRUE]
                       ELSE [f EXCEPT !.current = @ + 1]
             ELSE LET amount == F64Min(balance, f.accounts[f.current + 1])
                  IN  [f EXCEPT !.accounts[f.current + 1] = F64Sub(@, amount),
                                !.balances[s] = F64Sub(@, amount),
                                !.total_transactions = @ + 1]

\* ------------------------------------------------- SinglePoolWithSingleAccount
\* the inner pool replaced by a new one instead of being reset
SinglePoolWithSingleAccount_withdraw_all_new_inner(inner) ==
    [inner |-> SinglePool_new,
     ret   |-> SinglePool_total_accounts(inner) + Cardinality(DOMAIN inner.shop_balances)]

\* the count without the settlements to the shops
SinglePoolWithSingleAccount_withdraw_all_accounts_only(inner) ==
    [inner |-> SinglePool_reset(inner), ret |-> SinglePool_total_accounts(inner)]

SinglePoolWithSingleAccount_withdraw_all(inner) ==
    [inner |-> SinglePool_reset(inner),
     ret   |-> SinglePool_total_accounts(inner) + Cardinality(DOMAIN inner.shop_balances)]

\* run the loops of withdraw_all to their end
RECURSIVE SinglePool_withdraw_run(_)
SinglePool_withdraw_run(f) ==
    IF f.pc # "loop" THEN f ELSE SinglePool_withdraw_run(SinglePool_withdraw_step(f))

\* BinaryHeap::iter: the heap's vector, some heap-ordered layout of the balances
SinglePool_accounts(self) == {a \in Orderings(self.pool) : IsHeapOrder(a)}

\* the orders in which HashMap::iter_mut may visit the shops
ShopOrders(shop_balances) == Orderings(SetToSeq(DOMAIN shop_balances))

\* SinglePool::withdraw_all as one call, for the enumeration orders given
SinglePool_withdraw_all(self, accounts, order) ==
    LET f == SinglePool_withdraw_run(WithdrawEnter(accounts, order, self.shop_balances))
    IN  [self |-> SinglePool_reset(self), ret |-> f.total_transactions,
         broke |-> f.broke]

\* ------------------------------------------------------------------ sim.rs
Hours == 0 .. (HOURS_IN_DAY - 1)
Days == 0 .. (DAYS_IN_YEAR - 1)

\* A distribution is kept as the set of samples it can yield; a shop size
\* is counted in halves, so that a size of 1/2 is a sample too.
PositiveSamples(distribution) == {x \in distribution : x > 0}

\* GlobalData::gen: one positive size per shop
GlobalData_gen(config) ==
    {[shop_sizes |-> sizes] :
        sizes \in [Shops -> PositiveSamples(config.shop_size_distribution)]}

\* ((txs_per_hour as f64) * shop_size) as usize
Scale(txs_per_hour, shop_size) == (txs_per_hour * shop_size) \div 2

RECURSIVE Power(_, _)
Power(b, k) == IF k = 0 THEN 1 ELSE b * Power(b, k - 1)

\* (rng.next_u32() as usize) % DAYS_IN_YEAR: the days the model draws are the
\* first and the last day of the year
SaleDays == {0, DAYS_IN_YEAR - 1}

\* AnnualData::gen: per shop, the base multipliers with the sale days
\* multiplied, and the hourly table scaled by the shop's size
AnnualData_gen(config, global_data) ==
    LET sales == 1 .. config.sales_per_year_for_each_shop
    IN  {[shop_distributions |->
            [s \in Shops |->
                [daily_multipliers |->
                    [d \in Days |->
                        config.default_daily_multipliers[d]
                        * Power(config.sale_multiplier,
                                Cardinality({k \in sales : sale_days[s][k] = d}))],
                 default_daily_distribution |->
                    [h \in Hours |->
                        Scale(config.default_daily_distribution[h],
                              global_data.shop_sizes[s])]]]] :
         sale_days \in [Shops -> [sales -> SaleDays]]}

\* the transactions of one shop in one hour, counted without the sales
ShopTransactions_base_multiplier(config, distr, shop_id, day, hour) ==
    LET txs_number == config.default_daily_multipliers[day]
                      * distr.default_daily_distribution[hour]
    IN  [1 .. txs_number ->
            [amount : PositiveSamples(config.price_distribution), shop_id : {shop_id}]]

\* the transactions of one shop in one hour: txs_number of them, each with
\* a positive price
ShopTransactions(config, distr, shop_id, day, hour) ==
    LET txs_number == distr.daily_multipliers[day] * distr.default_daily_distribution[hour]
    IN  [1 .. txs_number ->
            [amount : PositiveSamples(config.price_distribution), shop_id : {shop_id}]]

RECURSIVE HourTransactions(_, _, _, _, _)
HourTransactions(config, annual_data, day, hour, shop_id) ==
    IF shop_id = simulated_shops_number THEN {<<>>}
    ELSE {txs \o rest :
            txs \in ShopTransactions(config, annual_data.shop_distributions[shop_id],
                                     shop_id, day, hour),
            rest \in HourTransactions(config, annual_data, day, hour, shop_id + 1)}

RECURSIVE DayTransactions(_, _, _, _)
DayTransactions(config, annual_data, day, hour) ==
    IF hour = HOURS_IN_DAY THEN {<<>>}
    ELSE {<<txs>> \o rest :
            txs \in HourTransactions(config, annual_data, day, hour, 0),
            rest \in DayTransactions(config, annual_data, day, hour + 1)}

\* DailyData::gen with the day counted from 1
DailyData_gen_one_based(config, annual_data, day) ==
    {[transactions |-> transactions,
      withdrawal |-> ((day + 1) % config.withdrawal_period_in_days) = 0] :
        transactions \in DayTransactions(config, annual_data, day, 0)}

\* DailyData::gen; transactions[hour + 1] is the list of hour `hour`
DailyData_gen(config, annual_data, day) ==
    {[transactions |-> transactions,
      withdrawal |-> (day % config.withdrawal_period_in_days) = 0] :
        transactions \in DayTransactions(config, annual_data, day, 0)}

NoDailyData == [transactions |-> <<>>, withdrawal |-> FALSE]

\* the update with the peak overwritten by every hour's length
RECURSIVE GlobalStats_update_overwrite(_, _)
GlobalStats_update_overwrite(self, transactions) ==
    IF transactions = <<>> THEN self
    ELSE LET txs == Head(transactions)
         IN  GlobalStats_update_overwrite(
                 [total_number_of_transactions |->
                      self.total_number_of_transactions + Len(txs),
                  peak_parallel_transactions_number |-> Len(txs)],
                 Tail(transactions))

RECURSIVE GlobalStats_update(_, _)
GlobalStats_update(self, transactions) ==
    IF transactions = <<>> THEN self
    ELSE LET txs == Head(transactions)
         IN  GlobalStats_update(
                 [total_number_of_transactions |->
                      self.total_number_of_transactions + Len(txs),
                  peak_parallel_transactions_number |->
                      IF self.peak_parallel_transactions_number < Len(txs)
                      THEN Len(txs) ELSE self.peak_parallel_transactions_number],
                 Tail(transactions))

GlobalStats_default ==
    [total_number_of_transactions |-> 0, peak_parallel_transactions_number |-> 0]

\* the prices of a day's transactions in the order prices.next() gave them
RECURSIVE PricesOf(_)
PricesOf(transactions) ==
    IF transactions = <<>> THEN <<>>
    ELSE [i \in DOMAIN Head(transactions) |-> Head(transactions)[i].amount]
         \o PricesOf(Tail(transactions))

\* f[0] + ... + f[n]
RECURSIVE SumUpTo(_, _)
SumUpTo(f, n) == IF n < 0 THEN 0 ELSE f[n] + SumUpTo(f, n - 1)

\* the number of transactions DailyData::gen makes for the hour
HourLength(annual_data, day, hour) ==
    SumUpTo([s \in Shops |->
                annual_data.shop_distributions[s].daily_multipliers[day]
                * annual_data.shop_distributions[s].default_daily_distribution[hour]],
            simulated_shops_number - 1)

\* the number of prices.next() calls DailyData::gen makes for the day
PricesNeeded(annual_data, day) ==
    SumUpTo([h \in Hours |-> HourLength(annual_data, day, h)], HOURS_IN_DAY - 1)

\* the three variants in the order main feeds them
Variants == 1 .. 3

\* ------------------------------------------------------------------ state
VARIABLES
    pool_per_shop,                    \* PoolPerShop.pools
    single_pool,                      \* SinglePool
    single_pool_with_single_account,  \* SinglePoolWithSingleAccount.inner
    frame,          \* the running call of SinglePool::withdraw_all
    ret,            \* the values the last withdraw_all calls returned
    op,             \* the operation that produced this state
    pre,            \* SinglePool as it was when the running withdraw_all was entered
    processed,      \* exact sum of the amounts processed since the last reset
    batches,        \* number of transactions in the batches since the last withdrawal
    batch,          \* the batch process_transactions was last called with
    high_water,     \* per shop, the largest number of its transactions in one batch
    config,         \* SimConfig
    global_data,    \* GlobalData
    annual_data,    \* AnnualData of the running year
    daily_data,     \* DailyData of the running day
    main,           \* where fn main stands: year, day, variant, hour
    pool_stats,     \* per variant, total_number_of_transactions_during_withdrawals
    global_stats,   \* GlobalStats
    log,            \* what main has called so far
    sampler         \* the sample_iter().filter() iterators of GlobalData::gen and DailyData::gen

pool_vars == <<pool_per_shop, single_pool, single_pool_with_single_account>>
harness == <<frame, ret, op, pre, processed, batches, batch, high_water>>
simulation == <<config, global_data, annual_data, daily_data, main,
                pool_stats, global_stats, log, sampler>>

vars == <<pool_per_shop, single_pool, single_pool_with_single_account,
          frame, ret, op, pre, processed, batches, batch, high_water,
          config, global_data, annual_data, daily_data, main,
          pool_stats, global_stats, log, sampler>>

NoRet == [pool_per_shop |-> 0, single_pool |-> 0, rerun |-> 0,
          single_pool_with_single_account |-> 0, early |-> FALSE]

NoPre == [single_pool |-> SinglePool_new]

\* no iterator is being drawn from
NoSampler == [pc |-> "off", rng |-> 0, sizes |-> <<>>, prices |-> <<>>]

NoLog ==
    [calls |-> [v \in Variants |-> 0],      \* withdraw_all calls so far
     returned |-> [v \in Variants |-> 0],   \* sum of the values they returned
     today |-> [v \in Variants |-> 0],      \* withdraw_all calls of the running day
     hours |-> <<>>,                        \* hours fed to the running variant today
     largest |-> 0]                         \* longest batch SinglePool has processed

InitPools ==
    /\ pool_per_shop = EmptyMap
    /\ single_pool = SinglePool_new
    /\ single_pool_with_single_account = SinglePool_new
    /\ frame = Idle
    /\ ret = NoRet
    /\ op = "new"
    /\ pre = NoPre
    /\ processed = 0
    /\ batches = 0
    /\ batch = <<>>
    /\ high_water = [s \in Shops |-> 0]

\* the pools driven directly, batch by batch
Init ==
    /\ InitPools
    /\ config = [withdrawal_period_in_days |-> 1]
    /\ global_data = [shop_sizes |-> <<>>]
    /\ annual_data = [shop_distributions |-> <<>>]
    /\ daily_data = NoDailyData
    /\ main = [pc |-> "off", year |-> 0, day |-> 0, variant |-> 1, hour |-> 0]
    /\ pool_stats = [v \in Variants |-> 0]
    /\ global_stats = GlobalStats_default
    /\ log = NoLog
    /\ sampler = NoSampler

CountOf(transactions, s) ==
    Cardinality({i \in DOMAIN transactions : transactions[i].shop_id = s})

Max(a, b) == IF a < b THEN b ELSE a

\* one batch handed to process_transactions of the three variants
ProcessTransactions(transactions) ==
    /\ frame.pc = "idle"
    /\ batches + Len(transactions) <= MaxTransactionsPerPeriod
    /\ batches' = batches + Len(transactions)
    /\ batch' = transactions
    /\ pool_per_shop' = PoolPerShop_process_transactions(pool_per_shop, transactions)
    /\ single_pool' = SinglePool_process_transactions(single_pool, transactions)
    /\ single_pool_with_single_account' =
           SinglePool_process_transactions(single_pool_with_single_account, transactions)
    /\ processed' = processed + SumSeq([i \in DOMAIN transactions |-> transactions[i].amount])
    /\ high_water' = [s \in Shops |-> Max(high_water[s], CountOf(transactions, s))]
    /\ op' = "process_transactions"
    /\ ret' = NoRet
    /\ UNCHANGED <<frame, pre>>
    /\ UNCHANGED simulation

\* withdraw_all is called on the three variants; rerun is what the call on
\* SinglePool returns when the shop map is enumerated in some other order
WithdrawAll ==
    /\ frame.pc = "idle"
    /\ \E accounts \in SinglePool_accounts(single_pool) :
          \E order \in ShopOrders(single_pool.shop_balances),
             rerun \in {SinglePool_withdraw_all(single_pool, accounts, other).ret :
                           other \in ShopOrders(single_pool.shop_balances)} :
             LET r == SinglePool_withdraw_all(single_pool, accounts, order)
             IN  /\ single_pool' = r.self
                 /\ ret' = [pool_per_shop |-> PoolPerShop_withdraw_all(pool_per_shop).ret,
                            single_pool |-> r.ret,
                            rerun |-> rerun,
                            single_pool_with_single_account |->
                                SinglePoolWithSingleAccount_withdraw_all(
                                    single_pool_with_single_account).ret,
                            early |-> r.broke]
    /\ pool_per_shop' = PoolPerShop_withdraw_all(pool_per_shop).pools
    /\ single_pool_with_single_account' =
           SinglePoolWithSingleAccount_withdraw_all(single_pool_with_single_account).inner
    /\ op' = "withdraw_all"
    /\ processed' = 0
    /\ batches' = 0
    /\ batch' = <<>>
    /\ UNCHANGED <<frame, pre, high_water>>
    /\ UNCHANGED simulation

Next ==
    \/ \E transactions \in Batches : ProcessTransactions(transactions)
    \/ WithdrawAll

Spec == Init /\ [][Next]_vars

\* ---- SinglePool alone, the loops of its withdraw_all taken one step at a time

\* pool.process_transactions(&transactions)
Process(transactions) ==
    /\ frame.pc = "idle"
    /\ batches + Len(transactions) <= MaxTransactionsPerPeriod
    /\ batches' = batches + Len(transactions)
    /\ single_pool' = SinglePool_process_transactions(single_pool, transactions)
    /\ op' = "process_transactions"
    /\ ret' = NoRet
    /\ UNCHANGED <<pool_per_shop, single_pool_with_single_account, frame, pre,
                   processed, batch, high_water>>
    /\ UNCHANGED simulation

\* let accounts = self.pool.accounts(); the loops are entered
WithdrawCall ==
    /\ frame.pc = "idle"
    /\ \E accounts \in SinglePool_accounts(single_pool),
          order \in ShopOrders(single_pool.shop_balances) :
          frame' = WithdrawEnter(accounts, order, single_pool.shop_balances)
    /\ pre' = [single_pool |-> single_pool]
    /\ op' = "call"
    /\ batches' = 0
    /\ UNCHANGED <<pool_vars, ret, processed, batch, high_water>>
    /\ UNCHANGED simulation

\* one step of the loops of SinglePool::withdraw_all
WithdrawStep ==
    /\ frame.pc = "loop"
    /\ frame' = SinglePool_withdraw_step(frame)
    /\ single_pool' = [single_pool EXCEPT !.shop_balances = frame'.balances]
    /\ op' = "step"
    /\ UNCHANGED <<pool_per_shop, single_pool_with_single_account, ret, pre,
                   processed, batches, batch, high_water>>
    /\ UNCHANGED simulation

\* self.reset(); total_transactions
WithdrawReturn ==
    /\ frame.pc = "reset"
    /\ single_pool' = SinglePool_reset(single_pool)
    /\ ret' = [NoRet EXCEPT !.single_pool = frame.total_transactions,
                            !.early = frame.broke]
    /\ frame' = Idle
    /\ pre' = NoPre
    /\ op' = "return"
    /\ UNCHANGED <<pool_per_shop, single_pool_with_single_account,
                   processed, batches, batch, high_water>>
    /\ UNCHANGED simulation

StepNext ==
    \/ \E transactions \in Batches : Process(transactions)
    \/ WithdrawCall
    \/ WithdrawStep
    \/ WithdrawReturn

FairSpec ==
    Init /\ [][StepNext]_vars /\ WF_vars(WithdrawStep) /\ WF_vars(WithdrawReturn)

\* ----------------------------------------------------------------- main.rs
\* The configurations the simulation is run under: every period up to
\* MaxPeriod, in each of two hours of a day one transaction per shop on the
\* even days and two on the odd days.
SimConfigs ==
    {[simulated_years_number |-> MaxYears,
      shop_size_distribution |-> {-1, 0, 2},
      sales_per_year_for_each_shop |-> 0,
      sale_multiplier |-> 2,
      default_daily_multipliers |-> [d \in Days |-> 1 + (d % 2)],
      default_daily_distribution |-> [h \in Hours |-> IF h \in {9, 17} THEN 1 ELSE 0],
      price_distribution |-> {-1, 0, 1},
      withdrawal_period_in_days |-> p] : p \in 1 .. MaxPeriod}

\* main, after GlobalData::gen and the construction of the pools and stats
SimInit ==
    /\ InitPools
    /\ config \in SimConfigs
    /\ global_data \in GlobalData_gen(config)
    /\ annual_data = [shop_distributions |-> <<>>]
    /\ daily_data = NoDailyData
    /\ main = [pc |-> "year", year |-> 0, day |-> 0, variant |-> 1, hour |-> 0]
    /\ pool_stats = [v \in Variants |-> 0]
    /\ global_stats = GlobalStats_default
    /\ log = NoLog
    /\ sampler = NoSampler

\* for _year in 0..config.simulated_years_number: AnnualData::gen
GenYear ==
    /\ main.pc = "year"
    /\ main.year < config.simulated_years_number
    /\ annual_data' \in AnnualData_gen(config, global_data)
    /\ main' = [main EXCEPT !.pc = "day", !.day = 0]
    /\ UNCHANGED <<pool_vars, harness, config, global_data, daily_data,
                   pool_stats, global_stats, log, sampler>>

\* for day in 0..DAYS_IN_YEAR: DailyData::gen and global_stats.update
GenDay ==
    /\ main.pc = "day"
    /\ daily_data' \in DailyData_gen(config, annual_data, main.day)
    /\ global_stats' = GlobalStats_update(global_stats, daily_data'.transactions)
    /\ main' = [main EXCEPT !.pc = "simulate", !.variant = 1, !.hour = 0]
    /\ log' = [log EXCEPT !.today = [v \in Variants |-> 0], !.hours = <<>>]
    /\ UNCHANGED <<pool_vars, harness, config, global_data, annual_data, pool_stats,
                   sampler>>

\* simulate_day: pool.process_transactions(&daily_data.transactions[hour])
SimulateHour ==
    /\ main.pc = "simulate"
    /\ main.hour < HOURS_IN_DAY
    /\ LET transactions == daily_data.transactions[main.hour + 1]
       IN  /\ pool_per_shop' =
                 IF main.variant = 1
                 THEN PoolPerShop_process_transactions(pool_per_shop, transactions)
                 ELSE pool_per_shop
           /\ single_pool' =
                 IF main.variant = 2
                 THEN SinglePool_process_transactions(single_pool, transactions)
                 ELSE single_pool
           /\ single_pool_with_single_account' =
                 IF main.variant = 3
                 THEN SinglePool_process_transactions(single_pool_with_single_account,
                                                      transactions)
                 ELSE single_pool_with_single_account
    /\ main' = [main EXCEPT !.hour = @ + 1]
    /\ log' = [log EXCEPT !.hours = Append(@, main.hour),
                          !.largest =
                              IF main.variant = 2
                              THEN Max(@, Len(daily_data.transactions[main.hour + 1]))
                              ELSE @]
    /\ UNCHANGED <<harness, config, global_data, annual_data, daily_data,
                   pool_stats, global_stats, sampler>>

\* the next simulate_day call, the next day or the next year
Advance(m) ==
    IF m.variant < 3 THEN [m EXCEPT !.variant = @ + 1, !.hour = 0]
    ELSE IF m.day + 1 < DAYS_IN_YEAR THEN [m EXCEPT !.pc = "day", !.day = @ + 1]
    ELSE [m EXCEPT !.pc = "year", !.year = @ + 1]

\* the value the variant's withdraw_all returns and the pools it leaves
WithdrawVariant(variant, accounts, order) ==
    IF variant = 1
    THEN LET r == PoolPerShop_withdraw_all(pool_per_shop)
         IN  [ret |-> r.ret, pool_per_shop |-> r.pools, single_pool |-> single_pool,
              single_pool_with_single_account |-> single_pool_with_single_account]
    ELSE IF variant = 2
    THEN LET r == SinglePool_withdraw_all(single_pool, accounts, order)
         IN  [ret |-> r.ret, pool_per_shop |-> pool_per_shop, single_pool |-> r.self,
              single_pool_with_single_account |-> single_pool_with_single_account]
    ELSE LET r == SinglePoolWithSingleAccount_withdraw_all(single_pool_with_single_account)
         IN  [ret |-> r.ret, pool_per_shop |-> pool_per_shop, single_pool |-> single_pool,
              single_pool_with_single_account |-> r.inner]

\* `=` in place of `+=`
PoolStats_assign(total, returned) == returned

\* total_number_of_transactions_during_withdrawals += pool.withdraw_all()
PoolStats_add(total, returned) == total + returned

\* simulate_day: if daily_data.withdrawal { stats += pool.withdraw_all() }
SimulateWithdrawal ==
    /\ main.pc = "simulate"
    /\ main.hour = HOURS_IN_DAY
    /\ IF daily_data.withdrawal
       THEN \E accounts \in SinglePool_accounts(single_pool),
               order \in ShopOrders(single_pool.shop_balances) :
               LET r == WithdrawVariant(main.variant, accounts, order)
               IN  /\ pool_per_shop' = r.pool_per_shop
                   /\ single_pool' = r.single_pool
                   /\ single_pool_with_single_account' = r.single_pool_with_single_account
                   /\ pool_stats' = [pool_stats EXCEPT ![main.variant] = PoolStats_add(@, r.ret)]
                   /\ log' = [log EXCEPT !.calls[main.variant] = @ + 1,
                                         !.today[main.variant] = @ + 1,
                                         !.returned[main.variant] = @ + r.ret,
                                         !.hours = <<>>]
       ELSE /\ log' = [log EXCEPT !.hours = <<>>]
            /\ UNCHANGED <<pool_vars, pool_stats>>
    /\ main' = Advance(main)
    /\ UNCHANGED <<harness, config, global_data, annual_data, daily_data, global_stats,
                   sampler>>

\* the loop over the years is over: the results are built and written
Finish ==
    /\ main.pc = "year"
    /\ main.year >= config.simulated_years_number
    /\ main' = [main EXCEPT !.pc = "done"]
    /\ UNCHANGED <<pool_vars, harness, config, global_data, annual_data, daily_data,
                   pool_stats, global_stats, log, sampler>>

SimNext == GenYear \/ GenDay \/ SimulateHour \/ SimulateWithdrawal \/ Finish

SimSpec == SimInit /\ [][SimNext]_vars

\* ------------------------------------------------- the sampling, draw by draw
\* GlobalData::gen, AnnualData::gen and the first DailyData::gen of a run,
\* with one draw from a distribution per step.  rng is the state of the
\* SmallRng, a word of finite width that every draw advances.
GenConfigs ==
    {[simulated_years_number |-> 1,
      shop_size_distribution |-> sizes,
      sales_per_year_for_each_shop |-> 0,
      sale_multiplier |-> 2,
      default_daily_multipliers |-> [d \in Days |-> 1],
      default_daily_distribution |-> [h \in Hours |-> IF h \in {9, 17} THEN 1 ELSE 0],
      price_distribution |-> prices,
      withdrawal_period_in_days |-> 1] :
        sizes \in {{-1, 0}, {-1, 2}, {2, 4}}, prices \in {{-1, 0}, {-1, 1}, {1}}}

GenInit ==
    /\ InitPools
    /\ config \in GenConfigs
    /\ global_data = [shop_sizes |-> <<>>]
    /\ annual_data = [shop_distributions |-> <<>>]
    /\ daily_data = NoDailyData
    /\ main = [pc |-> "off", year |-> 0, day |-> 0, variant |-> 1, hour |-> 0]
    /\ pool_stats = [v \in Variants |-> 0]
    /\ global_stats = GlobalStats_default
    /\ log = NoLog
    /\ sampler = [NoSampler EXCEPT !.pc = "shop_sizes"]

\* the iterator after one more sample was taken from the rng
Draw(s) == [s EXCEPT !.rng = (@ + 1) % RngPeriod]

\* GlobalData::gen: one sample goes through .filter(size > 0.0).take(n)
SampleShopSize ==
    /\ sampler.pc = "shop_sizes"
    /\ \E size \in config.shop_size_distribution :
          LET sizes == IF size > 0 THEN Append(sampler.sizes, size) ELSE sampler.sizes
          IN  IF Len(sizes) = simulated_shops_number
              THEN /\ global_data' = [shop_sizes |-> [s \in Shops |-> sizes[s + 1]]]
                   /\ sampler' = [Draw(sampler) EXCEPT !.pc = "annual", !.sizes = sizes]
              ELSE /\ sampler' = [Draw(sampler) EXCEPT !.sizes = sizes]
                   /\ UNCHANGED global_data
    /\ UNCHANGED <<pool_vars, harness, config, annual_data, daily_data, main,
                   pool_stats, global_stats, log>>

\* AnnualData::gen of the first year
SampleYear ==
    /\ sampler.pc = "annual"
    /\ annual_data' \in AnnualData_gen(config, global_data)
    /\ sampler' = [sampler EXCEPT !.pc = "prices"]
    /\ UNCHANGED <<pool_vars, harness, config, global_data, daily_data, main,
                   pool_stats, global_stats, log>>

\* DailyData::gen, day 0: one sample goes through .filter(price > 0.0)
SamplePrice ==
    /\ sampler.pc = "prices"
    /\ Len(sampler.prices) < PricesNeeded(annual_data, 0)
    /\ \E price \in config.price_distribution :
          sampler' = [Draw(sampler) EXCEPT
                         !.prices = IF price > 0 THEN Append(@, price) ELSE @]
    /\ UNCHANGED <<pool_vars, harness, config, global_data, annual_data, daily_data,
                   main, pool_stats, global_stats, log>>

\* DailyData::gen, day 0: the last prices.next() has returned
SampleDay ==
    /\ sampler.pc = "prices"
    /\ Len(sampler.prices) = PricesNeeded(annual_data, 0)
    /\ daily_data' \in {d \in DailyData_gen(config, annual_data, 0) :
                           PricesOf(d.transactions) = sampler.prices}
    /\ sampler' = [sampler EXCEPT !.pc = "done"]
    /\ UNCHANGED <<pool_vars, harness, config, global_data, annual_data, main,
                   pool_stats, global_stats, log>>

GenNext == SampleShopSize \/ SampleYear \/ SamplePrice \/ SampleDay

\* the loops of the iterators run on, and so does main between them
GenSpec ==
    /\ GenInit /\ [][GenNext]_vars
    /\ WF_vars(SampleShopSize) /\ WF_vars(SampleYear)
    /\ WF_vars(SamplePrice) /\ WF_vars(SampleDay)

\* --------------------------------------------- the generators on their own
\* AnnualData::gen and DailyData::gen applied once each to configurations with sales:
\* every number of sales up to MaxSales, every multiplier up to
\* MaxSaleMultiplier, base multipliers 1 and 2 on alternating days.
DataConfigs ==
    {[simulated_years_number |-> 1,
      shop_size_distribution |-> {-1, 0, 2, 4},
      sales_per_year_for_each_shop |-> sales,
      sale_multiplier |-> sale_multiplier,
      default_daily_multipliers |-> [d \in Days |-> 1 + (d % 2)],
      default_daily_distribution |->
          [h \in Hours |-> IF h = 9 THEN 1 ELSE IF h = 17 THEN 2 ELSE 0],
      price_distribution |-> {-1, 0, 1},
      withdrawal_period_in_days |-> 1] :
        sales \in 0 .. MaxSales, sale_multiplier \in 0 .. MaxSaleMultiplier}

\* the days DailyData::gen is applied to: the sale days and the day after the first
DataDays == SaleDays \cup {1}

DataInit ==
    /\ InitPools
    /\ config \in DataConfigs
    /\ global_data \in GlobalData_gen(config)
    /\ annual_data = [shop_distributions |-> <<>>]
    /\ daily_data = NoDailyData
    /\ main = [pc |-> "off", year |-> 0, day |-> 0, variant |-> 1, hour |-> 0]
    /\ pool_stats = [v \in Variants |-> 0]
    /\ global_stats = GlobalStats_default
    /\ log = NoLog
    /\ sampler = NoSampler

\* let annual_data = AnnualData::gen(&mut rng, &config, &global_data)
AnnualGen ==
    /\ main.year < config.simulated_years_number
    /\ annual_data' \in AnnualData_gen(config, global_data)
    /\ main' = [main EXCEPT !.year = @ + 1]
    /\ UNCHANGED <<pool_vars, harness, config, global_data, daily_data,
                   pool_stats, global_stats, log, sampler>>

\* let daily_data = DailyData::gen(&mut rng, &config, &annual_data, day)
DailyGen ==
    /\ annual_data.shop_distributions # <<>>
    /\ daily_data = NoDailyData
    /\ \E day \in DataDays :
          /\ daily_data' \in DailyData_gen(config, annual_data, day)
          /\ main' = [main EXCEPT !.day = day]
    /\ UNCHANGED <<pool_vars, harness, config, global_data, annual_data,
                   pool_stats, global_stats, log, sampler>>

DataNext == AnnualGen \/ DailyGen

DataSpec == DataInit /\ [][DataNext]_vars

\* ------------------------------------------------------------ properties
TypeOK ==
    /\ frame.pc \in {"idle", "loop", "reset", "panic"}
    /\ main.pc \in {"off", "year", "day", "simulate", "done"}

AccountsTotal(self) == SumSeq(self.pool)
ShopsTotal(self) == SumFun(self.shop_balances, DOMAIN self.shop_balances)

\* C1: between resets, the balances of the SinglePool accounts add up to
\* the amounts processed, and so do the per-shop running balances.
C1_Conservation ==
    frame.pc = "idle" =>
        /\ AccountsTotal(single_pool) = processed
        /\ ShopsTotal(single_pool) = processed

\* C2: a second run of the same seed and configuration (the same batches,
\* the same heap) gets the same count from SinglePool::withdraw_all,
\* whatever order its own shop map is enumerated in.
C2_Determinism == op = "withdraw_all" => ret.single_pool = ret.rerun

\* the number of days d < n of a year with d mod p = 0
WithdrawalDays(n) ==
    Cardinality({d \in 0 .. (n - 1) : d % config.withdrawal_period_in_days = 0})

\* C3: withdraw_all is called on a variant on day d exactly when
\* d mod withdrawal_period_in_days = 0, in every year: a call happens only
\* on such a day, a variant leaves such a day with one call more, and
\* between two days every variant has had one call per such day so far.
C3_WithdrawalSchedule ==
    /\ [][\A v \in Variants :
            /\ log'.calls[v] # log.calls[v] =>
                   /\ main.pc = "simulate" /\ main.variant = v
                   /\ main.day % config.withdrawal_period_in_days = 0
                   /\ log'.calls[v] = log.calls[v] + 1
            /\ (/\ main.pc = "simulate" /\ main.variant = v
                /\ main.hour = HOURS_IN_DAY /\ main' # main
                /\ main.day % config.withdrawal_period_in_days = 0) =>
                   log'.calls[v] = log.calls[v] + 1
          ]_vars
    /\ [](main.pc \in {"day", "year", "done"} =>
            \A v \in Variants :
                log.calls[v] =
                    IF main.pc = "day"
                    THEN main.year * WithdrawalDays(DAYS_IN_YEAR) + WithdrawalDays(main.day)
                    ELSE main.year * WithdrawalDays(DAYS_IN_YEAR))

C3_Witness ==
    /\ config.withdrawal_period_in_days = 7
    /\ main.pc = "day" /\ main.year = 1 /\ main.day = 1
    /\ \A v \in Variants : log.today[v] = 1 /\ log.calls[v] = 54

AllHours == [i \in 1 .. HOURS_IN_DAY |-> i - 1]

\* C4: a variant's withdraw_all is called only after the 24 batches of the
\* day were passed to its process_transactions in hour order, at most once
\* a day, and the variant's withdrawal total is the sum of the values its
\* withdraw_all calls returned.
C4_DayOrder ==
    /\ [][\A v \in Variants :
            log'.calls[v] # log.calls[v] => (main.variant = v /\ log.hours = AllHours)
          ]_vars
    /\ [](\A v \in Variants : log.today[v] <= 1)
    /\ [](\A v \in Variants : pool_stats[v] = log.returned[v])

C4_Witness ==
    /\ main.pc = "done"
    /\ \A v \in Variants : log.calls[v] >= 2 /\ pool_stats[v] >= 2

\* the greedy matching as the specification words it: drain the shops one
\* after another from the first account that still holds money
RECURSIVE GreedySteps(_, _)
GreedySteps(shops, accounts) ==
    IF shops = <<>> \/ accounts = <<>> THEN 0
    ELSE IF Head(shops) = 0 THEN GreedySteps(Tail(shops), accounts)
    ELSE IF Head(accounts) = 0 THEN GreedySteps(shops, Tail(accounts))
    ELSE LET amount == F64Min(Head(shops), Head(accounts))
         IN  1 + GreedySteps(<<F64Sub(Head(shops), amount)>> \o Tail(shops),
                             <<F64Sub(Head(accounts), amount)>> \o Tail(accounts))

BalancesInOrder(shop_balances, order) == [i \in DOMAIN order |-> shop_balances[order[i]]]

\* C5: SinglePool::withdraw_all returns the number of transfer steps of the
\* greedy matching of the shops, in the order they are visited, against the
\* accounts, in the order they are enumerated, whatever these orders are; a
\* balance of 15 against accounts 10 and 8 takes 2 steps.
GreedyCounts(self) ==
    {GreedySteps(BalancesInOrder(self.shop_balances, order), accounts) :
        accounts \in SinglePool_accounts(self), order \in ShopOrders(self.shop_balances)}

C5_GreedyCount ==
    /\ [](\A accounts \in SinglePool_accounts(single_pool),
             order \in ShopOrders(single_pool.shop_balances) :
             SinglePool_withdraw_all(single_pool, accounts, order).ret =
                 GreedySteps(BalancesInOrder(single_pool.shop_balances, order), accounts))
    /\ [][op' = "withdraw_all" => ret'.single_pool \in GreedyCounts(single_pool)]_vars
    /\ SinglePool_withdraw_all([pool |-> <<10, 8>>, shop_balances |-> [s \in {0} |-> 15]],
                               <<10, 8>>, <<0>>).ret = 2

C5_Witness ==
    op = "withdraw_all" /\ ret.single_pool = 3

\* C6: when SinglePool::withdraw_all returns, every account is at 0, there
\* are as many accounts as before the call and no shop balance is left.
C6_ResetAfterWithdraw ==
    [][op' = "withdraw_all" =>
          /\ \A i \in DOMAIN single_pool'.pool : single_pool'.pool[i] = 0
          /\ Len(single_pool'.pool) = Len(single_pool.pool)
          /\ DOMAIN single_pool'.shop_balances = {}
      ]_vars

C6_Witness ==
    /\ op = "withdraw_all" /\ ret.early /\ ret.single_pool >= 2
    /\ Len(single_pool.pool) >= 1

Deficit == AccountsTotal(pre.single_pool) < ShopsTotal(pre.single_pool)

\* C7: SinglePool::withdraw_all never indexes past the end of the account
\* list, its loop breaks only when every account is exhausted, and a call
\* entered with less money in the accounts than the shops are owed returns.
C7_WithdrawTerminates ==
    /\ [](frame.pc # "panic")
    /\ [](frame.broke => \A i \in DOMAIN frame.accounts : frame.accounts[i] = 0)
    /\ ((frame.pc = "loop" /\ Deficit) ~> (op = "return"))

C7_Witness ==
    /\ frame.pc = "reset" /\ frame.broke /\ Deficit
    /\ frame.total_transactions >= 2

\* C8: SinglePoolWithSingleAccount::withdraw_all returns the number of
\* accounts plus the number of shops with a non-zero running balance, both
\* as they were before the call.
C8_SingleAccountCount ==
    [][op' = "withdraw_all" =>
          ret'.single_pool_with_single_account =
              SinglePool_total_accounts(single_pool_with_single_account)
              + Cardinality({s \in Shops :
                    OrDefault(single_pool_with_single_account.shop_balances, s) # 0})
      ]_vars

C8_Witness == op = "withdraw_all" /\ ret.single_pool_with_single_account = 4

PoolLen(pools, s) == IF s \in DOMAIN pools THEN Len(pools[s]) ELSE 0

\* C9: PoolPerShop keeps, for every shop, as many accounts as the largest
\* number of transactions that shop had in one batch; the total never
\* decreases and withdraw_all leaves it as it is.
C9_AccountsHighWater ==
    /\ [](\A s \in Shops : PoolLen(pool_per_shop, s) = high_water[s])
    /\ [](PoolPerShop_total_accounts(pool_per_shop) = SumFun(high_water, Shops))
    /\ [][/\ PoolPerShop_total_accounts(pool_per_shop')
               >= PoolPerShop_total_accounts(pool_per_shop)
           /\ op' = "withdraw_all" =>
                  PoolPerShop_total_accounts(pool_per_shop')
                      = PoolPerShop_total_accounts(pool_per_shop)
          ]_vars

C9_Witness ==
    /\ op = "process_transactions"
    /\ \E s \in DOMAIN pool_per_shop :
          /\ Len(pool_per_shop[s]) = 2
          /\ pool_per_shop[s][1] # 0
          /\ pool_per_shop[s][2] = 0

NonZeroAccounts(pools) ==
    SumFun([s \in DOMAIN pools |->
               Cardinality({i \in DOMAIN pools[s] : pools[s][i] # 0})],
           DOMAIN pools)

\* C10: PoolPerShop::withdraw_all returns the number of accounts that held
\* a non-zero balance before the call and leaves every account at 0.
C10_NonZeroSettlements ==
    [][op' = "withdraw_all" =>
          /\ ret'.pool_per_shop = NonZeroAccounts(pool_per_shop)
          /\ NonZeroAccounts(pool_per_shop') = 0
      ]_vars

\* the accounts after a batch when every account is pushed back before the
\* next transaction is handled
RECURSIVE PushBackEach(_, _)
PushBackEach(pool, transactions) ==
    IF transactions = <<>> THEN pool
    ELSE LET account == IF pool = <<>> THEN 0 ELSE Head(pool)
             rest == IF pool = <<>> THEN <<>> ELSE Tail(pool)
         IN  PushBackEach(HeapPush(rest, F64Add(Head(transactions).amount, account)),
                          Tail(transactions))

\* C11 as claimed: SinglePool::process_transactions pops the smallest
\* account, adds the amount and pushes the account back before the next
\* transaction of the batch is handled.
C11_PushBackEach ==
    [][op' = "process_transactions" =>
          single_pool'.pool = PushBackEach(single_pool.pool, batch')
      ]_vars

\* the accounts after a batch when the i-th transaction goes to the i-th
\* smallest account, a new one when there are fewer than i accounts
SetAside(pool, transactions) ==
    HeapExtend(<<>>,
        [i \in 1 .. Max(Len(pool), Len(transactions)) |->
            IF i > Len(transactions) THEN pool[i]
            ELSE IF i > Len(pool) THEN F64Add(transactions[i].amount, 0)
            ELSE F64Add(transactions[i].amount, pool[i])])

\* C11 amended: the transactions of a batch are handled in arrival order,
\* the i-th one is added to the i-th smallest account as the batch found
\* them, a new zero-balance account is made for every transaction beyond
\* the number of accounts, and the updated accounts are pushed back only
\* after the last transaction of the batch.
C11_SetAside ==
    [][op' = "process_transactions" =>
          single_pool'.pool = SetAside(single_pool.pool, batch')
      ]_vars

C11_Witness ==
    /\ op = "process_transactions" /\ Len(batch) = 2
    /\ Len(single_pool.pool) = 2
    /\ \A i \in DOMAIN single_pool.pool : single_pool.pool[i] > 0

\* C12: the resampling of GlobalData::gen and DailyData::gen is bounded:
\* the generation either delivers the data or ends in a configuration
\* error, whatever the distributions yield.
C12_BoundedResampling == <>(sampler.pc \in {"done", "error"})

\* C13: for every shop and every day d of the year the generated
\* daily_multipliers[d] is at least the base multiplier of day d, whatever
\* the sale multiplier and the number of sales are, and it is the base
\* multiplier times sale_multiplier^k for a number k of sales.
C13_SaleDaysIncrease ==
    \A s \in DOMAIN annual_data.shop_distributions, d \in Days :
        LET multiplier == annual_data.shop_distributions[s].daily_multipliers[d]
            base == config.default_daily_multipliers[d]
        IN  /\ multiplier >= base
            /\ \E k \in 0 .. config.sales_per_year_for_each_shop :
                  multiplier = base * Power(config.sale_multiplier, k)

\* C14: on every day and in every hour the generated list holds, for each
\* shop, exactly daily_multipliers[day] * default_daily_distribution[hour]
\* transactions of that shop and none of a shop outside the configured range,
\* so the hour's length is the sum of the products over the shops.
C14_HourlyCounts ==
    daily_data.transactions # <<>> =>
        \A hour \in Hours :
            LET txs == daily_data.transactions[hour + 1]
            IN  /\ \A i \in DOMAIN txs : txs[i].shop_id \in Shops
                /\ \A s \in Shops :
                      Cardinality({i \in DOMAIN txs : txs[i].shop_id = s})
                          = annual_data.shop_distributions[s].daily_multipliers[main.day]
                            * annual_data.shop_distributions[s].default_daily_distribution[hour]
                /\ Len(txs) = HourLength(annual_data, main.day, hour)

\* a day on which a shop holds a sale and two shops trade in the same hour
C14_Witness ==
    /\ daily_data.transactions # <<>>
    /\ \E s \in Shops :
          annual_data.shop_distributions[s].daily_multipliers[main.day]
              > config.default_daily_multipliers[main.day]
    /\ \E hour \in Hours :
          LET txs == daily_data.transactions[hour + 1]
          IN  /\ Len(txs) >= 3
              /\ \E i, j \in DOMAIN txs : txs[i].shop_id # txs[j].shop_id

\* C15 as claimed: the balances PoolPerShop::process_transactions leaves do
\* not depend on the order of the transactions inside the batch: every
\* permutation of the batch, applied to the same prior state, gives the same
\* balance in every account of every shop.
C15_AnyPermutation ==
    [][op' = "process_transactions" =>
          \A permuted \in Orderings(batch') :
              PoolPerShop_process_transactions(pool_per_shop, permuted) = pool_per_shop'
      ]_vars

\* the transactions of one shop, in the order the batch holds them
OfShop(transactions, s) == SelectSeq(transactions, LAMBDA t : t.shop_id = s)

\* C15 amended: a permutation of the batch that keeps the relative order of
\* each shop's transactions gives the same balance in every account of every
\* shop; any permutation gives every shop the same number of accounts.
C15_OrderAcrossShops ==
    [][op' = "process_transactions" =>
          \A permuted \in Orderings(batch') :
              LET pools == PoolPerShop_process_transactions(pool_per_shop, permuted)
              IN  /\ DOMAIN pools = DOMAIN pool_per_shop'
                  /\ \A s \in DOMAIN pools : Len(pools[s]) = Len(pool_per_shop'[s])
                  /\ (\A s \in Shops : OfShop(permuted, s) = OfShop(batch', s))
                         => pools = pool_per_shop'
      ]_vars

\* a batch of two different amounts for two shops, on accounts of earlier batches
C15_Witness ==
    /\ op = "process_transactions" /\ Len(batch) = 2
    /\ batch[1].shop_id # batch[2].shop_id
    /\ batch[1].amount # batch[2].amount
    /\ PoolPerShop_total_accounts(pool_per_shop) >= 3

\* C16: fed the same batches and the same withdraw_all calls, SinglePool and
\* SinglePoolWithSingleAccount hold after every operation the same account
\* balances (the heap kept in ascending order, so equal sequences are equal
\* multisets), the same per-shop running balances and the same
\* total_accounts(); the values withdraw_all returns are free to differ.
C16_LockStep ==
    /\ single_pool.pool = single_pool_with_single_account.pool
    /\ single_pool.shop_balances = single_pool_with_single_account.shop_balances
    /\ SinglePool_total_accounts(single_pool)
           = SinglePool_total_accounts(single_pool_with_single_account)

\* a withdrawal after which the two variants report different counts and
\* both keep two or more accounts
C16_Witness ==
    /\ op = "withdraw_all"
    /\ ret.single_pool # ret.single_pool_with_single_account
    /\ Len(single_pool_with_single_account.pool) >= 2

\* C17: a batch of n transactions on a SinglePool of k accounts leaves
\* max(k, n) accounts, every transaction of the batch landing in an account
\* of its own; after any sequence of operations total_accounts() is the
\* length of the longest batch processed so far, and when the run is over it
\* is the reported peak_parallel_transactions_number.
C17_ParallelArrivals ==
    /\ [][(/\ main.pc = "simulate" /\ main.variant = 2
           /\ main.hour < HOURS_IN_DAY /\ main'.hour = main.hour + 1) =>
              SinglePool_total_accounts(single_pool')
                  = Max(SinglePool_total_accounts(single_pool),
                        Len(daily_data.transactions[main.hour + 1]))
         ]_vars
    /\ [](SinglePool_total_accounts(single_pool) = log.largest)
    /\ [](main.pc = "done" =>
             SinglePool_total_accounts(single_pool)
                 = global_stats.peak_parallel_transactions_number)

\* the run is over, its longest batch had two transactions of every shop
C17_Witness ==
    /\ main.pc = "done"
    /\ log.largest = 2 * simulated_shops_number
    /\ SinglePool_total_accounts(single_pool) = 2 * simulated_shops_number

\* the longest hourly list of a day and the number of its transactions
LongestHour(transactions) ==
    CHOOSE n \in {Len(transactions[i]) : i \in DOMAIN transactions} :
        \A i \in DOMAIN transactions : Len(transactions[i]) <= n

DayLength(transactions) ==
    SumUpTo([h \in Hours |-> Len(transactions[h + 1])], HOURS_IN_DAY - 1)

\* f[lo] + ... + f[hi], added up by halves
RECURSIVE SumRange(_, _, _)
SumRange(f, lo, hi) ==
    IF lo > hi THEN 0
    ELSE IF lo = hi THEN f[lo]
    ELSE LET mid == (lo + hi) \div 2
         IN  SumRange(f, lo, mid) + SumRange(f, mid + 1, hi)

\* the number of transactions generated in a year of annual_data
YearLength == SumRange([d \in Days |-> PricesNeeded(annual_data, d)], 0, DAYS_IN_YEAR - 1)

\* C18: after GlobalStats::update has been applied to the days generated so
\* far, peak_parallel_transactions_number is the length of the longest
\* hourly list seen and total_number_of_transactions the sum of the lengths
\* of all hourly lists seen: both start at 0, every generated day adds its
\* lengths and raises the peak to its longest hour, no operation of a pool
\* variant changes them, and at the end of the run the total is the number
\* of transactions of all the years.
C18_GlobalStats ==
    /\ [][IF main.pc = "day"
          THEN /\ global_stats'.total_number_of_transactions
                      = global_stats.total_number_of_transactions
                        + DayLength(daily_data'.transactions)
               /\ global_stats'.peak_parallel_transactions_number
                      = Max(global_stats.peak_parallel_transactions_number,
                            LongestHour(daily_data'.transactions))
          ELSE global_stats' = global_stats
         ]_vars
    /\ []((main.pc = "year" /\ main.year = 0) => global_stats = GlobalStats_default)
    /\ [](main.pc = "done" =>
             /\ global_stats.total_number_of_transactions
                    = config.simulated_years_number * YearLength
             /\ global_stats.peak_parallel_transactions_number
                    = 2 * simulated_shops_number)

\* a day whose longest hour is shorter than the peak of the days before it
C18_Witness ==
    /\ main.pc = "simulate" /\ main.day = 2
    /\ LongestHour(daily_data.transactions) = simulated_shops_number
    /\ global_stats.peak_parallel_transactions_number = 2 * simulated_shops_number
    /\ global_stats.total_number_of_transactions
           = (main.year * (DAYS_IN_YEAR + 182) + 4) * 2 * simulated_shops_number

\* the shops with a positive running balance and the accounts that hold money
PositiveShops(self) ==
    Cardinality({s \in DOMAIN self.shop_balances : self.shop_balances[s] > 0})

NonEmptyAccounts(self) == Cardinality({i \in DOMAIN self.pool : self.pool[i] # 0})

\* C19: with S >= 1 shops of positive running balance and A accounts of
\* non-zero balance, SinglePool::withdraw_all returns a count c with
\* max(S, A) <= c <= S + A - 1, which is below the count
\* SinglePoolWithSingleAccount::withdraw_all returns on the same state.
C19_CountBounds ==
    [][(op' = "withdraw_all" /\ PositiveShops(single_pool) >= 1) =>
          /\ Max(PositiveShops(single_pool), NonEmptyAccounts(single_pool))
                 <= ret'.single_pool
          /\ ret'.single_pool
                 <= PositiveShops(single_pool) + NonEmptyAccounts(single_pool) - 1
          /\ ret'.single_pool < ret'.single_pool_with_single_account
      ]_vars

\* C20: fed the same batches and the same withdrawals, PoolPerShop has at
\* every point at least as many accounts as SinglePool.
C20_PerShopAtLeastSingle ==
    PoolPerShop_total_accounts(pool_per_shop) >= SinglePool_total_accounts(single_pool)

\* after a batch, SinglePool holds two accounts and PoolPerShop two more
C20_Witness ==
    /\ op = "process_transactions"
    /\ SinglePool_total_accounts(single_pool) = 2
    /\ PoolPerShop_total_accounts(pool_per_shop) = 4

====
